---- MODULE Spec2Model ----
(***************************************************************************)
(* System Report Generator: the collectors of SystemReport, its text       *)
(* renderer, save() and main(), as state machines over the answers the     *)
(* operating system gives to the psutil / socket / datetime queries.       *)
(***************************************************************************)
EXTENDS Integers, Sequences, FiniteSets, TLC

VARIABLES
    pc,       \* position of the running call
    os,       \* what the operating-system queries answer during this run
    args,     \* argparse namespace: format, output, print
    clock,    \* wall clock in seconds, read by datetime.datetime.now()
    self,     \* the SystemReport object: fmt, info, time
    console,  \* what print() has written, in order
    files,    \* what open(fname, 'w') has written, in order
    ret       \* [exc, val]: what the collector called returned, or the exception raised

vars == <<pc, os, args, clock, self, console, files, ret>>

None == "None"

(***************************************************************************)
(* Generic helpers                                                         *)
(***************************************************************************)
Reverse(s) == [i \in 1..Len(s) |-> s[Len(s) + 1 - i]]

Prefix(s, n) == SubSeq(s, 1, IF Len(s) < n THEN Len(s) ELSE n)

Range(s) == {s[i] : i \in 1..Len(s)}

SeqsUpTo(S, n) == UNION {[1..k -> S] : k \in 0..n}

\* byte counts are kept in KiB, so 1024**3 and 1024**2 bytes are
GiB == 1024 * 1024
MiB == 1024

\* f"{x / unit:.1f} <suffix>": the quotient rounded to one decimal, kept in tenths
Fmt1(x, unit, suffix) == [tenths |-> (20 * x + unit) \div (2 * unit), unit |-> suffix]

(***************************************************************************)
(* _processes                                                              *)
(***************************************************************************)
TopN == 8

MaxProcs == 9
MaxSkipped == 1
MemPercents == {10, 20}
ProcErrors == {"NoSuchProcess", "AccessDenied"}

\* p.info of the k-th process psutil.process_iter yields
ProcInfo(k, mem) ==
    [pid |-> k, name |-> "proc", cpu_percent |-> 0, memory_percent |-> mem]

\* psutil.Process(pid).memory_info() for the k-th process: [exc, rss]
MemoryInfo(o, k) == o.memory_info[k]

\* faulty variant: AccessDenied is not caught
ProcCaughtOnlyGone(e) == e = "NoSuchProcess"
\* except (psutil.NoSuchProcess, psutil.AccessDenied)
ProcCaught(e) == e \in {"NoSuchProcess", "AccessDenied"}

SortKey(x) == x.memory_percent

RECURSIVE InsertStable(_, _)
\* x goes after every element whose key is <= its own
InsertStable(x, s) ==
    IF s = <<>> THEN <<x>>
    ELSE IF SortKey(x) < SortKey(Head(s)) THEN <<x>> \o s
    ELSE LET rest == Tail(s)
             tail == InsertStable(x, rest)
         IN <<Head(s)>> \o tail

RECURSIVE SortAscending(_)
SortAscending(l) ==
    IF l = <<>> THEN <<>>
    ELSE LET sorted == SortAscending(SubSeq(l, 1, Len(l) - 1))
         IN InsertStable(l[Len(l)], sorted)

\* faulty variant: sorted ascending and reversed, which turns ties around
SortNoReverse(l) == LET a == SortAscending(l) IN Reverse(a)
\* list.sort(key=..., reverse=True): reverse, stable ascending sort, reverse
SortDescending(l) == LET r == Reverse(l) a == SortAscending(r) IN Reverse(a)

RECURSIVE ProcLoop(_, _, _)
\* the for loop from the k-th process on; procs is the list built so far
ProcLoop(o, k, procs) ==
    IF k > Len(o.process_iter) THEN [exc |-> None, procs |-> procs]
    ELSE LET m == MemoryInfo(o, k) IN
         IF m.exc # None
         THEN IF ProcCaught(m.exc) THEN ProcLoop(o, k + 1, procs)
              ELSE [exc |-> m.exc, procs |-> procs]
         ELSE LET info == [pid |-> o.process_iter[k].pid,
                           name |-> o.process_iter[k].name,
                           cpu_percent |-> o.process_iter[k].cpu_percent,
                           memory_percent |-> o.process_iter[k].memory_percent,
                           memory_mb |-> [num |-> m.rss, den |-> MiB]]
                  next == Append(procs, info)
              IN ProcLoop(o, k + 1, next)

Truncate(l) == Prefix(l, TopN)

\* SystemReport._processes: [exc, val]
Processes(o) ==
    LET r == ProcLoop(o, 1, <<>>) IN
    IF r.exc # None THEN [exc |-> r.exc, val |-> <<>>]
    ELSE LET sorted == SortDescending(r.procs)
         IN [exc |-> None, val |-> Truncate(sorted)]

\* an enumeration of n processes with memory percentages mems, those in DOMAIN errs failing
ProcWorld(n, mems, errs) ==
    [process_iter |-> [k \in 1..n |-> ProcInfo(k, mems[k])],
     memory_info  |-> [k \in 1..n |-> IF k \in DOMAIN errs
                                      THEN [exc |-> errs[k], rss |-> 0]
                                      ELSE [exc |-> None, rss |-> k * MiB]]]

Idle == /\ args = None /\ clock = 0 /\ self = None /\ console = <<>> /\ files = <<>>

\* at most MaxProcs processes, at most MaxSkipped of them failing
ProcInit ==
    /\ pc = "call"
    /\ \E n \in 0..MaxProcs :
       \E mems \in [1..n -> MemPercents] :
       \E bad \in {b \in SUBSET (1..n) : Cardinality(b) <= MaxSkipped} :
       \E errs \in [bad -> ProcErrors] :
           os = ProcWorld(n, mems, errs)
    /\ ret = [exc |-> None, val |-> <<>>]
    /\ Idle

ProcCall ==
    /\ pc = "call"
    /\ ret' = Processes(os)
    /\ pc' = "return"
    /\ UNCHANGED <<os, args, clock, self, console, files>>

ProcNext == ProcCall

SpecProcesses == ProcInit /\ [][ProcNext]_vars

\* positions of the enumeration whose resident-memory lookup succeeds / fails
Collected == {k \in 1..Len(os.process_iter) : os.memory_info[k].exc = None}
Failing   == {k \in 1..Len(os.process_iter) : os.memory_info[k].exc # None}
Reported  == {ret.val[i].pid : i \in 1..Len(ret.val)}

\* C1: the list _processes returns has at most 8 entries, is sorted by memory
\* percentage descending, holds the collected entries with the highest memory
\* percentage, and keeps entries of equal memory percentage in enumeration order.
ProcessesTop8Sorted ==
    (pc = "return" /\ ret.exc = None) =>
        /\ Len(ret.val) <= 8
        /\ \A i, j \in 1..Len(ret.val) :
              i < j => /\ ret.val[i].memory_percent >= ret.val[j].memory_percent
                       /\ ret.val[i].pid # ret.val[j].pid
                       /\ (ret.val[i].memory_percent = ret.val[j].memory_percent
                             => ret.val[i].pid < ret.val[j].pid)
        /\ \A i \in 1..Len(ret.val) :
              /\ ret.val[i].pid \in Collected
              /\ ret.val[i].memory_percent = os.process_iter[ret.val[i].pid].memory_percent
        /\ \A k \in Collected \ Reported :
              /\ Len(ret.val) = 8
              /\ \A i \in 1..Len(ret.val) :
                    os.process_iter[k].memory_percent <= ret.val[i].memory_percent

\* more than 8 processes collected, the list cut to 8, with a tie inside the list,
\* two different percentages in it, and a dropped process tying with a kept one
ProcessesTop8SortedWitness ==
    /\ pc = "return" /\ ret.exc = None
    /\ Cardinality(Collected) > 8
    /\ Len(ret.val) = 8
    /\ ret.val[1].memory_percent > ret.val[8].memory_percent
    /\ ret.val[7].memory_percent = ret.val[8].memory_percent
    /\ \E k \in Collected \ Reported :
          os.process_iter[k].memory_percent = ret.val[8].memory_percent

\* C9: with processes that vanished or deny access, _processes returns without
\* raising, reports none of them, and every other enumerated process is reported
\* unless 8 processes of at least its memory percentage are.
ProcessesSkipFailing ==
    pc = "return" =>
        /\ ret.exc = None
        /\ Reported \cap Failing = {}
        /\ Len(ret.val) = (IF Cardinality(Collected) < 8 THEN Cardinality(Collected) ELSE 8)
        /\ \A k \in Collected \ Reported :
              \A i \in 1..Len(ret.val) :
                  os.process_iter[k].memory_percent <= ret.val[i].memory_percent

\* a process denying access sits in the middle of the enumeration and the 8 others,
\* before and after it, are all reported
ProcessesSkipFailingWitness ==
    /\ pc = "return" /\ ret.exc = None
    /\ \E k \in Failing :
          /\ os.memory_info[k].exc = "AccessDenied"
          /\ 1 < k /\ k < Len(os.process_iter)
    /\ Cardinality(Collected) = 8
    /\ Reported = Collected

(***************************************************************************)
(* _disks                                                                  *)
(***************************************************************************)
MaxParts == 3

\* device names as character sequences: /d/a, a, b\ (slashes are what replace() strips)
Devices == {<<"/", "d", "/", "a">>, <<"a">>, <<"b", "\\">>}
\* the device names psutil.disk_io_counters(perdisk=True) may be keyed by
IoKeys == {<<"a">>, <<"d", "a">>}
UsageErrors == {"PermissionError", "OSError"}
IoErrors == {"RuntimeError", "OSError"}

\* part.device.replace("\\", "").replace("/", "")
StripSlashes(device) == SelectSeq(device, LAMBDA c : c \notin {"\\", "/"})

\* faulty variant: only PermissionError is caught
DiskCaughtOnlyPermission(e) == e = "PermissionError"
\* except (PermissionError, OSError); PermissionError is a subclass of OSError
DiskCaught(e) == e \in {"PermissionError", "OSError"}

\* faulty variant: no handler around the I/O counter lookup
IoCaughtNothing(e) == FALSE
\* the bare except: around the I/O counter lookup
IoCaught(e) == TRUE

NoIo == [read_bytes |-> 0, write_bytes |-> 0]

\* disk_io_counters(perdisk=True).get(key, None): [exc, found, io]; found is FALSE
\* when get returns None; .get on a None answer raises AttributeError
IoLookup(o, device) ==
    IF o.disk_io_counters.exc # None
    THEN [exc |-> o.disk_io_counters.exc, found |-> FALSE, io |-> NoIo]
    ELSE IF o.disk_io_counters.isNone
    THEN [exc |-> "AttributeError", found |-> FALSE, io |-> NoIo]
    ELSE IF StripSlashes(device) \in o.disk_io_counters.keys
         THEN [exc |-> None, found |-> TRUE, io |-> o.disk_io_counters.counters]
         ELSE [exc |-> None, found |-> FALSE, io |-> NoIo]

\* the disk_info dict without the I/O counters
DiskInfo(part, use) ==
    [device |-> part.device, mountpoint |-> part.mountpoint, fstype |-> part.fstype,
     total |-> Fmt1(use.total, GiB, "GB"), used |-> Fmt1(use.used, GiB, "GB"),
     free |-> Fmt1(use.free, GiB, "GB"), percent |-> use.percent]

\* disk_info after disk_info["read_bytes"] = ...; disk_info["write_bytes"] = ...
WithIo(info, io) ==
    [k \in DOMAIN info \cup {"read_bytes", "write_bytes"} |->
        IF k = "read_bytes" THEN Fmt1(io.read_bytes, MiB, "MB")
        ELSE IF k = "write_bytes" THEN Fmt1(io.write_bytes, MiB, "MB")
        ELSE info[k]]

\* the body of the outer try for the k-th partition: [exc, info]
DiskBody(o, k) ==
    LET part == o.disk_partitions[k]
        use  == o.disk_usage[k]
    IN IF use.exc # None THEN [exc |-> use.exc, info |-> <<>>]
       ELSE LET info == DiskInfo(part, use)
                look == IoLookup(o, part.device)
            IN IF look.exc # None
               THEN IF IoCaught(look.exc) THEN [exc |-> None, info |-> info]
                    ELSE [exc |-> look.exc, info |-> <<>>]
               ELSE IF look.found
                    THEN [exc |-> None, info |-> WithIo(info, look.io)]
                    ELSE [exc |-> None, info |-> info]

RECURSIVE DiskLoop(_, _, _)
\* the for loop from the k-th partition on; disks is the list built so far
DiskLoop(o, k, disks) ==
    IF k > Len(o.disk_partitions) THEN [exc |-> None, val |-> disks]
    ELSE LET b == DiskBody(o, k) IN
         IF b.exc # None
         THEN IF DiskCaught(b.exc) THEN DiskLoop(o, k + 1, disks)
              ELSE [exc |-> b.exc, val |-> <<>>]
         ELSE LET next == Append(disks, b.info) IN DiskLoop(o, k + 1, next)

\* SystemReport._disks: [exc, val]
Disks(o) == DiskLoop(o, 1, <<>>)

\* n partitions on devices devs, their usage lookups failing as errs says, and the
\* I/O counter query answering io
DiskWorld(n, devs, errs, io) ==
    [disk_partitions |-> [k \in 1..n |->
        [device |-> devs[k], mountpoint |-> k, fstype |-> "ext4"]],
     disk_usage |-> [k \in 1..n |->
        IF k \in DOMAIN errs
        THEN [exc |-> errs[k], total |-> 0, used |-> 0, free |-> 0, percent |-> 0]
        ELSE [exc |-> None, total |-> 4 * k * GiB, used |-> k * GiB,
              free |-> 3 * k * GiB, percent |-> 25]],
     disk_io_counters |-> io]

\* the answers of psutil.disk_io_counters(perdisk=True): raising, None, or a mapping
IoAnswers ==
    {[exc |-> e, isNone |-> FALSE, keys |-> {}, counters |-> NoIo] : e \in IoErrors}
    \cup {[exc |-> None, isNone |-> TRUE, keys |-> {}, counters |-> NoIo]}
    \cup {[exc |-> None, isNone |-> FALSE, keys |-> ks,
           counters |-> [read_bytes |-> 3 * MiB, write_bytes |-> 5 * MiB]] :
            ks \in SUBSET IoKeys}

DiskInit ==
    /\ pc = "call"
    /\ \E n \in 0..MaxParts :
       \E devs \in [1..n -> Devices] :
       \E bad \in SUBSET (1..n) :
       \E errs \in [bad -> UsageErrors] :
       \E io \in IoAnswers :
           os = DiskWorld(n, devs, errs, io)
    /\ ret = [exc |-> None, val |-> <<>>]
    /\ Idle

DiskCall ==
    /\ pc = "call"
    /\ ret' = Disks(os)
    /\ pc' = "return"
    /\ UNCHANGED <<os, args, clock, self, console, files>>

DiskNext == DiskCall

SpecDisks == DiskInit /\ [][DiskNext]_vars

\* partitions (by position; the model's mount point is the position) whose usage
\* lookup succeeds / raises
UsageOk     == {k \in 1..Len(os.disk_partitions) : os.disk_usage[k].exc = None}
UsageFailed == {k \in 1..Len(os.disk_partitions) : os.disk_usage[k].exc # None}

\* C2: whichever partitions fail their usage lookup with a permission or OS error,
\* _disks returns without raising, with no record for a failing partition and exactly
\* one record for every other partition, in enumeration order.
DisksSkipFailing ==
    pc = "return" =>
        /\ ret.exc = None
        /\ \A i \in 1..Len(ret.val) : ret.val[i].mountpoint \notin UsageFailed
        /\ \A k \in UsageOk :
              Cardinality({i \in 1..Len(ret.val) : ret.val[i].mountpoint = k}) = 1
        /\ \A i, j \in 1..Len(ret.val) :
              i < j => ret.val[i].mountpoint < ret.val[j].mountpoint

\* the middle one of three partitions fails with OSError, the first and the third
\* are reported
DisksSkipFailingWitness ==
    /\ pc = "return" /\ ret.exc = None
    /\ Len(os.disk_partitions) = 3
    /\ UsageFailed = {2} /\ os.disk_usage[2].exc = "OSError"
    /\ Len(ret.val) = 2
    /\ ret.val[1].mountpoint = 1 /\ ret.val[2].mountpoint = 3

UsageFields == {"device", "mountpoint", "fstype", "total", "used", "free", "percent"}
IoFields == {"read_bytes", "write_bytes"}

\* C10: for a partition whose usage lookup succeeds, no outcome of the I/O counter
\* lookup (raising, None, no entry for the device) propagates or removes the
\* partition: its record is present with all usage fields, and carries the
\* read/write counters exactly when the lookup returned an entry for the device.
DisksIoBestEffort ==
    pc = "return" =>
        /\ ret.exc = None
        /\ \A k \in UsageOk :
              \E i \in 1..Len(ret.val) :
                  /\ ret.val[i].mountpoint = k
                  /\ UsageFields \subseteq DOMAIN ret.val[i]
                  /\ ret.val[i].device = os.disk_partitions[k].device
                  /\ ret.val[i].percent = os.disk_usage[k].percent
                  /\ DOMAIN ret.val[i] \subseteq UsageFields \cup IoFields
                  /\ ("read_bytes" \in DOMAIN ret.val[i]) = ("write_bytes" \in DOMAIN ret.val[i])
                  /\ ("read_bytes" \in DOMAIN ret.val[i]) =
                       (/\ os.disk_io_counters.exc = None
                        /\ ~os.disk_io_counters.isNone
                        /\ SelectSeq(os.disk_partitions[k].device,
                                     LAMBDA c : c # "/" /\ c # "\\")
                              \in os.disk_io_counters.keys)

\* the I/O counter query raises OSError and both partitions are still reported,
\* without counters
DisksIoBestEffortWitness ==
    /\ pc = "return" /\ ret.exc = None
    /\ os.disk_io_counters.exc = "OSError"
    /\ UsageOk = {1, 2}
    /\ Len(ret.val) = 2
    /\ DOMAIN ret.val[1] = UsageFields /\ DOMAIN ret.val[2] = UsageFields

(***************************************************************************)
(* Date and time formatting.  The clock counts seconds; the calendar date  *)
(* is kept as the day number, and the local time zone is UTC.              *)
(***************************************************************************)
\* strftime("%Y-%m-%d %H:%M:%S")
FmtDateTime(t) ==
    [style |-> "%Y-%m-%d %H:%M:%S", day |-> t \div 86400,
     h |-> (t \div 3600) % 24, m |-> (t \div 60) % 60, s |-> t % 60]

\* strftime("%Y%m%d_%H%M%S")
FmtFileStamp(t) ==
    [style |-> "%Y%m%d_%H%M%S", day |-> t \div 86400,
     h |-> (t \div 3600) % 24, m |-> (t \div 60) % 60, s |-> t % 60]

\* strftime("%H:%M:%S")
FmtTime(t) ==
    [style |-> "%H:%M:%S", h |-> (t \div 3600) % 24, m |-> (t \div 60) % 60, s |-> t % 60]

(***************************************************************************)
(* _sensors                                                                *)
(***************************************************************************)
MaxReadings == 3
SensorNames == {"coretemp", "acpitz"}
Temperatures == {40, 55}

\* {"info": "N/A"}
SensorsPlaceholder == [info |-> "N/A"]

\* [{"current": entry.current} for entry in entries[:2]]
Readings(entries) ==
    [i \in 1..(IF Len(entries) < 2 THEN Len(entries) ELSE 2) |->
        [current |-> entries[i].current]]

\* faulty variant: a missing query is treated like an empty answer
SensorsNoPlaceholder(o) ==
    LET temps == o.sensors_temperatures.temps IN
    IF DOMAIN temps # {}
    THEN [name \in DOMAIN temps |-> Readings(temps[name])]
    ELSE <<>>
\* SystemReport._sensors.  psutil.sensors_temperatures is missing on platforms without
\* sensor support (AttributeError); where it exists it answers a mapping from group
\* name to readings, empty when the host has no sensor.
Sensors(o) ==
    IF o.sensors_temperatures.missing THEN SensorsPlaceholder
    ELSE LET temps == o.sensors_temperatures.temps IN
         IF DOMAIN temps # {}
         THEN [name \in DOMAIN temps |-> Readings(temps[name])]
         ELSE <<>>

SensorAnswers ==
    {[missing |-> TRUE, temps |-> <<>>]}
    \cup UNION {{[missing |-> FALSE, temps |-> t] :
                    t \in [names -> SeqsUpTo([label : {"core"}, current : Temperatures,
                                              high : {80}, critical : {100}],
                                             MaxReadings)]} :
                names \in SUBSET SensorNames}

SensorInit ==
    /\ pc = "call"
    /\ \E a \in SensorAnswers : os = [sensors_temperatures |-> a]
    /\ ret = [exc |-> None, val |-> <<>>]
    /\ Idle

SensorCall ==
    /\ pc = "call"
    /\ ret' = [exc |-> None, val |-> Sensors(os)]
    /\ pc' = "return"
    /\ UNCHANGED <<os, args, clock, self, console, files>>

SensorNext == SensorCall

SpecSensors == SensorInit /\ [][SensorNext]_vars

\* C7: when the sensor query is missing or reports no sensors at all, the sensors
\* field is the placeholder {"info": "N/A"} and not an empty mapping; when sensors
\* are reported, every group holds at most 2 readings, each only its current value.
SensorsPlaceholderWhenUnavailable ==
    pc = "return" =>
        IF os.sensors_temperatures.missing \/ DOMAIN os.sensors_temperatures.temps = {}
        THEN /\ DOMAIN ret.val = {"info"}
             /\ ret.val["info"] = "N/A"
        ELSE /\ DOMAIN ret.val = DOMAIN os.sensors_temperatures.temps
             /\ \A name \in DOMAIN ret.val :
                   /\ Len(ret.val[name]) <= 2
                   /\ \A i \in 1..Len(ret.val[name]) :
                         /\ DOMAIN ret.val[name][i] = {"current"}
                         /\ ret.val[name][i].current
                              = os.sensors_temperatures.temps[name][i].current

\* C7 as amended: the placeholder is returned exactly when the sensor query is
\* missing; when the query exists and reports no sensors the field is the empty
\* mapping; when sensors are reported, every group holds at most 2 readings, each
\* only its current value.
SensorsPlaceholderWhenMissing ==
    pc = "return" =>
        IF os.sensors_temperatures.missing
        THEN /\ DOMAIN ret.val = {"info"}
             /\ ret.val["info"] = "N/A"
        ELSE /\ DOMAIN ret.val = DOMAIN os.sensors_temperatures.temps
             /\ \A name \in DOMAIN ret.val :
                   /\ Len(ret.val[name]) <= 2
                   /\ Len(ret.val[name]) <= Len(os.sensors_temperatures.temps[name])
                   /\ Len(os.sensors_temperatures.temps[name]) <= 2
                        => Len(ret.val[name]) = Len(os.sensors_temperatures.temps[name])
                   /\ \A i \in 1..Len(ret.val[name]) :
                         /\ DOMAIN ret.val[name][i] = {"current"}
                         /\ ret.val[name][i].current
                              = os.sensors_temperatures.temps[name][i].current

\* the sensor query is missing and the placeholder has been returned
SensorsPlaceholderWhenMissingWitness ==
    /\ pc = "return"
    /\ os.sensors_temperatures.missing
    /\ DOMAIN ret.val = {"info"}

(***************************************************************************)
(* _platform, _cpu, _memory, _network, _users, _boot and collect           *)
(***************************************************************************)
\* SystemReport._platform: [exc, val]; socket.gethostbyname may raise (not caught)
Platform(o) ==
    IF o.gethostbyname.exc # None THEN [exc |-> o.gethostbyname.exc, val |-> <<>>]
    ELSE [exc |-> None,
          val |-> [system |-> o.platform.system, release |-> o.platform.release,
                   version |-> o.platform.version, host |-> o.hostname,
                   ip |-> o.gethostbyname.ip]]

\* f"{freq.current:.0f} MHz" if freq else "N/A"
CpuFreq(o) ==
    IF o.cpu_freq.isNone THEN [text |-> "N/A", value |-> 0]
    ELSE [text |-> "{:.0f} MHz", value |-> o.cpu_freq.current]

\* faulty variant: usage not normalised by the number of cores
CpuUsageTimesCores(o) ==
    [physical_cores |-> o.cpu_count.physical,
     logical_cores  |-> o.cpu_count.logical,
     freq    |-> CpuFreq(o),
     usage   |-> o.cpu_percent * o.cpu_count.logical,
     per_cpu |-> o.cpu_percent_percpu]
\* SystemReport._cpu
Cpu(o) ==
    [physical_cores |-> o.cpu_count.physical,
     logical_cores  |-> o.cpu_count.logical,
     freq    |-> CpuFreq(o),
     usage   |-> o.cpu_percent,
     per_cpu |-> o.cpu_percent_percpu]

\* SystemReport._memory; swap is "<used>/<total> GB"
Memory(o) ==
    [total_ram   |-> Fmt1(o.virtual_memory.total, GiB, "GB"),
     used_ram    |-> Fmt1(o.virtual_memory.used, GiB, "GB"),
     ram_percent |-> o.virtual_memory.percent,
     swap        |-> [used |-> Fmt1(o.swap_memory.used, GiB, ""),
                      total |-> Fmt1(o.swap_memory.total, GiB, "GB")]]

RECURSIVE IpAddresses(_)
\* the inner loop over an interface's addresses, AF_LINK entries left out
IpAddresses(addrs) ==
    IF addrs = <<>> THEN <<>>
    ELSE LET a == Head(addrs)
             rest == IpAddresses(Tail(addrs))
         IN IF a.family = "AF_INET"
            THEN <<[kind |-> "IPv4", address |-> a.address, netmask |-> a.netmask]>> \o rest
            ELSE IF a.family = "AF_INET6"
            THEN <<[kind |-> "IPv6", address |-> a.address, netmask |-> None]>> \o rest
            ELSE rest

RECURSIVE MacAddress(_, _)
\* mac_address after the inner loop: the last AF_LINK address, or None
MacAddress(addrs, mac) ==
    IF addrs = <<>> THEN mac
    ELSE MacAddress(Tail(addrs),
                    IF Head(addrs).family = "AF_LINK" THEN Head(addrs).address ELSE mac)

\* stats of one interface: {} when net_if_stats has no entry for it
IfaceStats(o, iface) ==
    IF iface \in DOMAIN o.net_if_stats
    THEN [is_up |-> IF o.net_if_stats[iface].isup THEN "UP" ELSE "DOWN",
          speed |-> IF o.net_if_stats[iface].speed > 0
                    THEN [text |-> "{} Mbps", value |-> o.net_if_stats[iface].speed]
                    ELSE [text |-> "N/A", value |-> 0],
          mtu   |-> o.net_if_stats[iface].mtu]
    ELSE <<>>

\* SystemReport._network; interfaces in the order net_if_addrs() lists them
Network(o) ==
    [bytes_sent   |-> Fmt1(o.net_io_counters.bytes_sent, MiB, "MB"),
     bytes_recv   |-> Fmt1(o.net_io_counters.bytes_recv, MiB, "MB"),
     packets_sent |-> o.net_io_counters.packets_sent,
     packets_recv |-> o.net_io_counters.packets_recv,
     interfaces   |-> [i \in 1..Len(o.net_if_addrs) |->
                          [iface |-> o.net_if_addrs[i].iface,
                           ip_addresses |-> IpAddresses(o.net_if_addrs[i].addrs),
                           mac |-> MacAddress(o.net_if_addrs[i].addrs, None),
                           stats |-> IfaceStats(o, o.net_if_addrs[i].iface)]]]

\* SystemReport._users
Users(o) ==
    [i \in 1..Len(o.users) |->
        [name |-> o.users[i].name, host |-> o.users[i].host,
         started |-> FmtTime(o.users[i].started)]]

\* SystemReport._boot
Boot(o) == FmtDateTime(o.boot_time)

\* SystemReport.collect: [exc, info].  The dict display evaluates the collectors in
\* order; an exception leaves self.info as it was.
Collect(o, time) ==
    LET pl == Platform(o) IN
    IF pl.exc # None THEN [exc |-> pl.exc, info |-> <<>>]
    ELSE LET d == Disks(o) IN
    IF d.exc # None THEN [exc |-> d.exc, info |-> <<>>]
    ELSE LET pr == Processes(o) IN
    IF pr.exc # None THEN [exc |-> pr.exc, info |-> <<>>]
    ELSE [exc |-> None,
          info |-> [time |-> time, platform |-> pl.val, cpu |-> Cpu(o),
                    memory |-> Memory(o), disks |-> d.val, network |-> Network(o),
                    processes |-> pr.val, users |-> Users(o), boot |-> Boot(o),
                    sensors |-> Sensors(o)]]

\* a host every query of which answers; the specifications vary some of the answers
DefaultHost ==
    [platform |-> [system |-> "Linux", release |-> "6.1", version |-> "#1 SMP"],
     hostname |-> "host",
     gethostbyname |-> [exc |-> None, ip |-> "127.0.1.1"],
     cpu_count |-> [physical |-> 2, logical |-> 4],
     cpu_freq |-> [isNone |-> FALSE, current |-> 2400],
     cpu_percent |-> 12,
     cpu_percent_percpu |-> <<10, 14>>,
     virtual_memory |-> [total |-> 8 * GiB, used |-> 3 * GiB, percent |-> 37],
     swap_memory |-> [used |-> 0, total |-> 2 * GiB],
     disk_partitions |-> <<[device |-> <<"/", "d", "/", "a">>, mountpoint |-> 1,
                            fstype |-> "ext4"]>>,
     disk_usage |-> <<[exc |-> None, total |-> 4 * GiB, used |-> GiB, free |-> 3 * GiB,
                       percent |-> 25]>>,
     disk_io_counters |-> [exc |-> None, isNone |-> FALSE, keys |-> {<<"d", "a">>},
                           counters |-> [read_bytes |-> 3 * MiB, write_bytes |-> 5 * MiB]],
     net_io_counters |-> [bytes_sent |-> 7 * MiB, bytes_recv |-> 9 * MiB,
                          packets_sent |-> 70, packets_recv |-> 90],
     net_if_addrs |-> <<[iface |-> "lo",
                         addrs |-> <<[family |-> "AF_INET", address |-> "127.0.0.1",
                                      netmask |-> "255.0.0.0"],
                                     [family |-> "AF_LINK", address |-> "00:00:00:00:00:00",
                                      netmask |-> None]>>],
                        [iface |-> "tun0", addrs |-> <<>>]>>,
     net_if_stats |-> [lo |-> [isup |-> TRUE, speed |-> 0, mtu |-> 65536]],
     process_iter |-> <<ProcInfo(1, 10)>>,
     memory_info |-> <<[exc |-> None, rss |-> MiB]>>,
     users |-> <<>>,
     boot_time |-> 0,
     sensors_temperatures |-> [missing |-> TRUE, temps |-> <<>>]]

\* DefaultHost with the answers named in over replaced
HostWith(over) ==
    [k \in DOMAIN DefaultHost |-> IF k \in DOMAIN over THEN over[k] ELSE DefaultHost[k]]

(***************************************************************************)
(* collect() over hosts whose queries answer any of Percents               *)
(***************************************************************************)
MaxCores == 2
\* percentages the queries answer; psutil documents per-process CPU above 100 for a
\* process running threads on several cores
Percents == {0, 100, 250}

CollectInit ==
    /\ pc = "call"
    /\ \E cpu, ram, disk, pcpu, pmem \in Percents :
       \E percpu \in SeqsUpTo(Percents, MaxCores) :
           os = HostWith(
                 [cpu_percent |-> cpu,
                  cpu_percent_percpu |-> percpu,
                  virtual_memory |-> [total |-> 8 * GiB, used |-> 3 * GiB, percent |-> ram],
                  disk_usage |-> <<[exc |-> None, total |-> 4 * GiB, used |-> GiB,
                                    free |-> 3 * GiB, percent |-> disk]>>,
                  process_iter |-> <<[pid |-> 1, name |-> "proc", cpu_percent |-> pcpu,
                                      memory_percent |-> pmem]>>])
    /\ self = [fmt |-> "text", info |-> <<>>, time |-> FmtDateTime(0)]
    /\ ret = [exc |-> None, val |-> <<>>]
    /\ args = None /\ clock = 0 /\ console = <<>> /\ files = <<>>

CollectCall ==
    /\ pc = "call"
    /\ LET r == Collect(os, self.time) IN
       /\ self' = IF r.exc = None THEN [self EXCEPT !.info = r.info] ELSE self
       /\ ret' = [exc |-> r.exc, val |-> r.info]
    /\ pc' = "return"
    /\ UNCHANGED <<os, args, clock, console, files>>

CollectNext == CollectCall

SpecCollect == CollectInit /\ [][CollectNext]_vars

InRange(p) == 0 <= p /\ p <= 100

\* the percentage fields of a snapshot
SnapshotPercents(info) ==
    {info.cpu.usage, info.memory.ram_percent}
    \cup Range(info.cpu.per_cpu)
    \cup {info.disks[i].percent : i \in 1..Len(info.disks)}
    \cup {info.processes[i].cpu_percent : i \in 1..Len(info.processes)}
    \cup {info.processes[i].memory_percent : i \in 1..Len(info.processes)}

\* the percentages the queries answered
ReportedPercents ==
    {os.cpu_percent, os.virtual_memory.percent}
    \cup Range(os.cpu_percent_percpu)
    \cup {os.disk_usage[i].percent : i \in 1..Len(os.disk_usage)}
    \cup {os.process_iter[i].cpu_percent : i \in 1..Len(os.process_iter)}
    \cup {os.process_iter[i].memory_percent : i \in 1..Len(os.process_iter)}

\* C6: in every snapshot every percentage field (CPU usage, per-core usage, RAM,
\* partitions, processes' CPU and memory) lies in [0,100], whatever the queries answer.
PercentagesInRange ==
    (pc = "return" /\ ret.exc = None) =>
        \A p \in SnapshotPercents(self.info) : InRange(p)

\* C6 as amended: every percentage field of the snapshot is the value the query
\* answered, unchanged, so the fields lie in [0,100] when the answers do.
PercentagesPassThrough ==
    (pc = "return" /\ ret.exc = None) =>
        /\ self.info.cpu.usage = os.cpu_percent
        /\ self.info.cpu.per_cpu = os.cpu_percent_percpu
        /\ self.info.memory.ram_percent = os.virtual_memory.percent
        /\ Len(self.info.disks) = 1
        /\ self.info.disks[1].percent = os.disk_usage[1].percent
        /\ Len(self.info.processes) = 1
        /\ self.info.processes[1].cpu_percent = os.process_iter[1].cpu_percent
        /\ self.info.processes[1].memory_percent = os.process_iter[1].memory_percent
        /\ (\A p \in ReportedPercents : InRange(p))
              => (\A p \in SnapshotPercents(self.info) : InRange(p))

\* a snapshot taken while every query answered within range, the CPU fully busy
PercentagesPassThroughWitness ==
    /\ pc = "return" /\ ret.exc = None
    /\ \A p \in ReportedPercents : InRange(p)
    /\ os.cpu_percent = 100
    /\ Len(os.cpu_percent_percpu) = 2
    /\ self.info.cpu.usage = 100

(***************************************************************************)
(* text_report and json_report.  A report is the list of lines joined by   *)
(* "\n"; a line is its format string (in English) and the values put in it.*)
(***************************************************************************)
Line(text, values) == [text |-> text, values |-> values]

\* "=" * 60 and "-" * 40
Rule60 == Line("=*60", <<>>)
Rule40 == Line("-*40", <<>>)

RECURSIVE DiskLines(_, _)
\* the loop over enumerate(self.info['disks'], 1), from the i-th disk on
DiskLines(disks, i) ==
    IF i > Len(disks) THEN <<>>
    ELSE LET disk == disks[i]
             rest == DiskLines(disks, i + 1)
             head == <<Line("{i}. {device} -> {mountpoint}", <<i, disk.mountpoint>>),
                       Line("   Type: {fstype}, Total: {total}", <<disk.total.tenths>>),
                       Line("   Used: {used} ({percent}%), Free: {free}",
                            <<disk.used.tenths, disk.percent, disk.free.tenths>>)>>
         IN IF "read_bytes" \in DOMAIN disk
            THEN head \o <<Line("   Read: {read_bytes}, Written: {write_bytes}",
                               <<disk.read_bytes.tenths, disk.write_bytes.tenths>>)>> \o rest
            ELSE head \o rest

RECURSIVE IfaceLines(_, _)
\* the loop over net['interfaces'].items(), from the i-th interface on
IfaceLines(ifaces, i) ==
    IF i > Len(ifaces) THEN <<>>
    ELSE LET info == ifaces[i]
             rest == IfaceLines(ifaces, i + 1)
         IN IF info.ip_addresses # <<>>
            THEN <<Line("\\n{iface}:", <<info.iface>>)>>
                 \o (IF info.mac # None THEN <<Line("  MAC: {mac}", <<info.mac>>)>> ELSE <<>>)
                 \o [k \in 1..(IF Len(info.ip_addresses) < 2 THEN Len(info.ip_addresses) ELSE 2)
                        |-> Line("  {ip}", <<info.ip_addresses[k].address>>)]
                 \o (IF DOMAIN info.stats # {}
                     THEN <<Line("  Status: {is_up}, Speed: {speed}", <<info.stats.is_up>>)>>
                     ELSE <<>>)
                 \o rest
            ELSE rest

\* the loop over enumerate(self.info['processes'], 1)
ProcessLines(procs) ==
    [i \in 1..Len(procs) |->
        Line("{i}. {name[:20]:20} PID:{pid:6} CPU:{cpu_percent:5.1f}% MEM:{memory_percent:5.1f}%",
             <<i, procs[i].pid, procs[i].cpu_percent, procs[i].memory_percent>>)]

UserLine(user) ==
    Line("{name} from {host} (since {started})", <<user.name, user.host, user.started>>)

\* faulty variant: the header is written also for an empty list
UserSectionAlways(users) ==
    <<Line("\\nACTIVE USERS:", <<>>), Rule40>> \o [i \in 1..Len(users) |-> UserLine(users[i])]
\* if self.info['users']: header, rule and one line per user
UserSection(users) ==
    IF users # <<>>
    THEN <<Line("\\nACTIVE USERS:", <<>>), Rule40>>
         \o [i \in 1..Len(users) |-> UserLine(users[i])]
    ELSE <<>>

\* SystemReport.text_report
TextReport(info, time) ==
    <<Rule60, Line("SYSTEM REPORT - {time}", <<time>>), Rule60>>
    \o <<Line("\\nPLATFORM:", <<>>), Rule40,
          Line("System: {system} {release}", <<info.platform.system, info.platform.release>>),
          Line("Version: {version}", <<info.platform.version>>),
          Line("Host: {host}", <<info.platform.host>>),
          Line("IP address: {ip}", <<info.platform.ip>>)>>
    \o <<Line("\\nCPU:", <<>>), Rule40,
          Line("Cores: {physical_cores} physical, {logical_cores} logical",
               <<info.cpu.physical_cores, info.cpu.logical_cores>>),
          Line("Frequency: {freq}", <<info.cpu.freq.value>>),
          Line("Usage: {usage}%", <<info.cpu.usage>>),
          Line("Per core: {per_cpu}", info.cpu.per_cpu)>>
    \o <<Line("\\nMEMORY:", <<>>), Rule40,
          Line("RAM: {used_ram} / {total_ram} ({ram_percent}%)",
               <<info.memory.used_ram.tenths, info.memory.total_ram.tenths,
                 info.memory.ram_percent>>),
          Line("SWAP: {swap}", <<info.memory.swap.used.tenths, info.memory.swap.total.tenths>>)>>
    \o <<Line("\\nDISKS:", <<>>), Rule40>>
    \o DiskLines(info.disks, 1)
    \o <<Line("\\nNETWORK INTERFACES:", <<>>), Rule40,
          Line("Sent: {bytes_sent}, Received: {bytes_recv}",
               <<info.network.bytes_sent.tenths, info.network.bytes_recv.tenths>>),
          Line("Packets: sent {packets_sent}, received {packets_recv}",
               <<info.network.packets_sent, info.network.packets_recv>>)>>
    \o IfaceLines(info.network.interfaces, 1)
    \o <<Line("\\nTOP-8 PROCESSES:", <<>>), Rule40>>
    \o ProcessLines(info.processes)
    \o UserSection(info.users)
    \o <<Line("\\nBOOT TIME: {boot}", <<info.boot>>), Rule60>>

\* SystemReport.json_report: json.dumps of the snapshot
JsonReport(info) == [json |-> info]

NoBody == [fmt |-> "", json |-> JsonReport(<<>>), lines |-> <<>>]

(***************************************************************************)
(* save and main                                                           *)
(***************************************************************************)
MaxUsers == 2
MaxElapsed == 2
\* wall-clock seconds at which main may start
StartTimes == {0, 59, 86399}
Sessions == {[name |-> "root", host |-> "tty1", started |-> 3661],
             [name |-> "alice", host |-> "10.0.0.5", started |-> 86399]}
\* args.output: absent, the empty string, or a name
Outputs == {None, "", "out"}
NoStamp == [style |-> "", day |-> 0, h |-> 0, m |-> 0, s |-> 0]
\* fillers for the fields a console entry does not use
NoName == [given |-> "", prefix |-> "", stamp |-> NoStamp, ext |-> ""]

\* not fname
Falsy(fname) == fname = None \/ fname = ""

\* faulty variant: the format is ignored
FileExtAlwaysTxt(fmt) == ".txt"
\* ".json" if self.fmt == "json" else ".txt"
FileExt(fmt) == IF fmt = "json" THEN ".json" ELSE ".txt"

\* the name save() writes to: the given name, or "system_report_" and the stamp of
\* datetime.datetime.now() at the time of the call, then the extension
FileName(fname, fmt, now) ==
    IF Falsy(fname)
    THEN [given |-> "", prefix |-> "system_report_", stamp |-> FmtFileStamp(now),
          ext |-> FileExt(fmt)]
    ELSE [given |-> fname, prefix |-> "", stamp |-> NoStamp, ext |-> FileExt(fmt)]

\* self.json_report() if self.fmt == "json" else self.text_report()
Render(fmt, info, time) ==
    IF fmt = "json" THEN [fmt |-> "json", json |-> JsonReport(info), lines |-> <<>>]
    ELSE [fmt |-> "text", json |-> JsonReport(<<>>), lines |-> TextReport(info, time)]

\* faulty variant: no handler in main
MainCaughtNothing(e) == FALSE
\* except Exception as e
MainCaught(e) == e \in {"gaierror", "OSError", "PermissionError", "RuntimeError",
                        "AttributeError", "NoSuchProcess", "AccessDenied"}

\* faulty variant: nothing is saved unless --output is given
SaveWhenOutputOnly(a) == ~Falsy(a.output)
\* if args.output or not args.print
ShouldSave(a) == ~Falsy(a.output) \/ ~a.print

MainInit ==
    /\ pc = "start"
    /\ args \in [format : {"text", "json"}, output : Outputs, print : BOOLEAN]
    /\ clock \in StartTimes
    /\ \E users \in SeqsUpTo(Sessions, MaxUsers) :
       \E resolve \in {[exc |-> None, ip |-> "127.0.1.1"], [exc |-> "gaierror", ip |-> ""]} :
           os = HostWith([users |-> users, gethostbyname |-> resolve])
    /\ self = [fmt |-> "", info |-> <<>>, time |-> NoStamp]
    /\ console = <<>>
    /\ files = <<>>
    /\ ret = [exc |-> None, val |-> <<>>]

\* report = SystemReport(args.format)
MainConstruct ==
    /\ pc = "start"
    /\ self' = [fmt |-> args.format, info |-> <<>>, time |-> FmtDateTime(clock)]
    /\ pc' = "collect"
    /\ UNCHANGED <<os, args, clock, console, files, ret>>

\* report.collect(); the two cpu_percent(interval=0.5) samplings take a second or more
MainCollect ==
    /\ pc = "collect"
    /\ \E d \in 1..MaxElapsed : clock' = clock + d
    /\ LET r == Collect(os, self.time) IN
       IF r.exc = None
       THEN /\ self' = [self EXCEPT !.info = r.info]
            /\ pc' = "print"
            /\ ret' = ret
       ELSE /\ self' = self
            /\ pc' = "raised"
            /\ ret' = [exc |-> r.exc, val |-> <<>>]
    /\ UNCHANGED <<os, args, console, files>>

\* if args.print: print(the report in args.format)
MainPrint ==
    /\ pc = "print"
    /\ console' = IF args.print
                  THEN Append(console, [kind |-> "report",
                                        body |-> Render(args.format, self.info, self.time),
                                        name |-> NoName, msg |-> ""])
                  ELSE console
    /\ pc' = "save"
    /\ UNCHANGED <<os, args, clock, self, files, ret>>

\* if args.output or not args.print: fname = report.save(args.output); print(...).
\* open() may raise OSError, and then nothing is written.
MainSave ==
    /\ pc = "save"
    /\ IF ShouldSave(args)
       THEN \E opened \in BOOLEAN :
               LET fname == FileName(args.output, self.fmt, clock) IN
               IF opened
               THEN /\ files' = Append(files, [name |-> fname,
                                      content |-> Render(self.fmt, self.info, self.time)])
                    /\ console' = Append(console, [kind |-> "saved",
                                        body |-> NoBody,
                                        name |-> fname, msg |-> ""])
                    /\ pc' = "done"
                    /\ ret' = ret
               ELSE /\ pc' = "raised"
                    /\ ret' = [exc |-> "OSError", val |-> <<>>]
                    /\ UNCHANGED <<files, console>>
       ELSE /\ pc' = "done"
            /\ UNCHANGED <<files, console, ret>>
    /\ UNCHANGED <<os, args, clock, self>>

\* except Exception as e: print(f"Error: {e}"); an exception not caught leaves main
MainExcept ==
    /\ pc = "raised"
    /\ IF MainCaught(ret.exc)
       THEN /\ console' = Append(console, [kind |-> "error",
                                  body |-> NoBody,
                                  name |-> NoName, msg |-> ret.exc])
            /\ ret' = [exc |-> None, val |-> <<>>]
            /\ pc' = "done"
       ELSE /\ pc' = "propagated"
            /\ UNCHANGED <<console, ret>>
    /\ UNCHANGED <<os, args, clock, self, files>>

MainNext == MainConstruct \/ MainCollect \/ MainPrint \/ MainSave \/ MainExcept

SpecMain == MainInit /\ [][MainNext]_vars

NonEmptyOutput == args.output # None /\ args.output # ""
CollectionSucceeded == DOMAIN self.info # {}
ReportsPrinted == {i \in 1..Len(console) : console[i].kind = "report"}
ErrorsPrinted  == {i \in 1..Len(console) : console[i].kind = "error"}

\* C3: when collection succeeds, the report is printed exactly when --print is set
\* and written to a file exactly when --output is given or --print is not set.
FlagsDecideOutputs ==
    (pc = "done" /\ CollectionSucceeded) =>
        /\ (ReportsPrinted # {}) = args.print
        /\ (files # <<>>) = (args.output # None \/ ~args.print)

\* C3 as amended: when collection succeeds, the report is printed (once) exactly when
\* --print is set; save is attempted exactly when --output is a non-empty name or
\* --print is not set, and writes one file unless opening it fails, which prints the
\* error message instead.
FlagsDecideOutputsAmended ==
    (pc = "done" /\ CollectionSucceeded) =>
        /\ (ReportsPrinted # {}) = args.print
        /\ Cardinality(ReportsPrinted) <= 1
        /\ Len(files) + Cardinality(ErrorsPrinted)
             = (IF NonEmptyOutput \/ ~args.print THEN 1 ELSE 0)
        /\ \A i \in 1..Len(files) :
              /\ files[i].content = Render(args.format, self.info, self.time)
              /\ (NonEmptyOutput => files[i].name.given = args.output)
        /\ \A i \in ReportsPrinted :
              console[i].body = Render(args.format, self.info, self.time)

\* a bare invocation has written a file and printed no report
FlagsDecideOutputsWitness ==
    /\ pc = "done" /\ CollectionSucceeded
    /\ ~args.print /\ args.output = None
    /\ Len(files) = 1
    /\ ReportsPrinted = {}

\* C4: when a collector raises (here the host name resolution of _platform), the
\* exception is caught once in main: one error message is printed, no report is
\* printed, no file is written, and main returns without propagating it.
CollectorFailureFailsWhole ==
    os.gethostbyname.exc # None =>
        /\ files = <<>>
        /\ ReportsPrinted = {}
        /\ pc \in {"start", "collect", "raised", "done"}
        /\ pc = "done" =>
              /\ Len(console) = 1
              /\ console[1].kind = "error"
              /\ console[1].msg = os.gethostbyname.exc
              /\ ret.exc = None
        /\ pc # "done" => console = <<>>

\* main has ended after gethostbyname raised, with --print and --output both given
CollectorFailureFailsWholeWitness ==
    /\ pc = "done"
    /\ os.gethostbyname.exc = "gaierror"
    /\ args.print /\ args.output = "out"
    /\ Len(console) = 1 /\ console[1].kind = "error"
    /\ files = <<>>

Seconds(f) == f.day * 86400 + f.h * 3600 + f.m * 60 + f.s

\* C5: a file written by save without a file name is named after the capture time of
\* the snapshot (the instant of its timestamp field) and ends with .json for the json
\* format and .txt for text.
DefaultNameEmbedsCaptureTime ==
    \A i \in 1..Len(files) :
        ~NonEmptyOutput =>
            /\ Seconds(files[i].name.stamp) = Seconds(self.time)
            /\ files[i].name.ext = (IF self.fmt = "json" THEN ".json" ELSE ".txt")

\* C5 as amended: the name embeds the date and time at which save is called (the
\* clock is read again then; it is not the snapshot's timestamp field), and ends
\* with .json for the json format and .txt for text.
DefaultNameEmbedsSaveTime ==
    \A i \in 1..Len(files) :
        /\ files[i].name.ext = (IF args.format = "json" THEN ".json" ELSE ".txt")
        /\ files[i].content.fmt = args.format
        /\ ~NonEmptyOutput =>
            /\ files[i].name.prefix = "system_report_"
            /\ files[i].name.stamp.style = "%Y%m%d_%H%M%S"
            /\ Seconds(files[i].name.stamp) = clock
            /\ files[i].name.stamp.s = clock % 60
            /\ files[i].name.stamp.m = (clock \div 60) % 60

\* a json report saved under the default name, the minute having turned since capture
DefaultNameEmbedsSaveTimeWitness ==
    /\ Len(files) = 1
    /\ args.output = None /\ args.format = "json"
    /\ files[1].name.ext = ".json"
    /\ self.time.s = 59 /\ self.time.m = 0
    /\ files[1].name.stamp.m = 1

\* the text reports printed or written so far
TextReports ==
    {console[i].body.lines : i \in {j \in ReportsPrinted : console[j].body.fmt = "text"}}
    \cup {files[i].content.lines : i \in {j \in 1..Len(files) : files[j].content.fmt = "text"}}

UsersHeaderAt(R) == {i \in 1..Len(R) : R[i].text = "\\nACTIVE USERS:"}
UserLinesAt(R)   == {i \in 1..Len(R) : R[i].text = "{name} from {host} (since {started})"}
ProcHeaderAt(R)  == {i \in 1..Len(R) : R[i].text = "\\nTOP-8 PROCESSES:"}
BootLineAt(R)    == {i \in 1..Len(R) : R[i].text = "\\nBOOT TIME: {boot}"}

\* C8: the text report has the active-users header exactly when the snapshot has a
\* user session; the header is then followed by one line per session, in order, with
\* the session's name, host and login time as HH:MM:SS, after the top-processes
\* section and before the boot-time line.
UserSectionIffSessions ==
    \A R \in TextReports :
        LET n == Len(os.users) IN
        /\ (UsersHeaderAt(R) # {}) = (n > 0)
        /\ Cardinality(UsersHeaderAt(R)) <= 1
        /\ Cardinality(UserLinesAt(R)) = n
        /\ \A h \in UsersHeaderAt(R) :
              /\ R[h + 1] = Rule40
              /\ \A i \in 1..n :
                    /\ R[h + 1 + i].text = "{name} from {host} (since {started})"
                    /\ R[h + 1 + i].values[1] = os.users[i].name
                    /\ R[h + 1 + i].values[2] = os.users[i].host
                    /\ R[h + 1 + i].values[3].style = "%H:%M:%S"
                    /\ R[h + 1 + i].values[3].h = (os.users[i].started \div 3600) % 24
                    /\ R[h + 1 + i].values[3].m = (os.users[i].started \div 60) % 60
                    /\ R[h + 1 + i].values[3].s = os.users[i].started % 60
              /\ BootLineAt(R) = {h + n + 2}
              /\ \E p \in ProcHeaderAt(R) :
                    /\ p + 2 + Len(self.info.processes) = h
                    /\ \A q \in (p + 2)..(h - 1) : R[q] = ProcessLines(self.info.processes)[q - p - 1]

\* a text report of a snapshot with two different sessions has been printed
UserSectionIffSessionsWitness ==
    /\ Len(os.users) = 2 /\ os.users[1] # os.users[2]
    /\ \E i \in ReportsPrinted :
          /\ console[i].body.fmt = "text"
          /\ UsersHeaderAt(console[i].body.lines) # {}

====
